---- MODULE Spec2Model ----
(***************************************************************************)
(* A model of the bucket/file storage service of src/app.py: the handlers  *)
(* create_bucket, delete_bucket, upload_file, download_file and            *)
(* delete_file over the Bucket table and the directory tree under          *)
(* STORAGE_PATH.  Every handler is cut at its accesses to shared state     *)
(* (one SQL statement, one filesystem call): the code holds no lock, so    *)
(* requests interleave between any two of them.  Strings are sequences of  *)
(* one-character strings.  No database or filesystem call fails for a      *)
(* reason outside the model (a full disk, a lost connection); a row is its *)
(* id and its name, created_at is left out.                                *)
(***************************************************************************)
EXTENDS Integers, Sequences, FiniteSets, TLC

VARIABLES
    table,      \* the rows of the Bucket table, in insertion order
    fs,         \* the directories under STORAGE_PATH: name -> (file name -> bytes)
    now,        \* the wall clock, in seconds
    pc,         \* where each request slot stands in its handler
    req,        \* the request a slot is serving (or served last)
    loc,        \* the handler's local variables
    resp,       \* the response a slot returned last
    overlapped  \* history: some request started while another was in progress

vars == <<table, fs, now, pc, req, loc, resp, overlapped>>

-----------------------------------------------------------------------------
(* Bounds of the model *)

NumReqs == 2        \* request slots served concurrently
MaxClock == 1       \* the clock runs over 0..MaxClock
MaxFiles == 2       \* files in one upload request

(* Program constants *)

MinNameLen == 3
MaxNameLen == 50

Reqs == 1..NumReqs

-----------------------------------------------------------------------------
(* Characters and the string methods the handlers use *)

LowerLetters == <<"a","b","c","d","e","f","g","h","i","j","k","l","m",
                  "n","o","p","q","r","s","t","u","v","w","x","y","z">>
UpperLetters == <<"A","B","C","D","E","F","G","H","I","J","K","L","M",
                  "N","O","P","Q","R","S","T","U","V","W","X","Y","Z">>
DigitChars == <<"0","1","2","3","4","5","6","7","8","9">>
Whitespace == {" ", "\t"}

Range(s) == {s[i] : i \in DOMAIN s}
AlnumChars == Range(LowerLetters) \cup Range(UpperLetters) \cup Range(DigitChars)

LowerChar(c) ==
    IF c \in Range(UpperLetters)
    THEN LowerLetters[CHOOSE i \in DOMAIN UpperLetters : UpperLetters[i] = c]
    ELSE c

\* str.lower()
StrLower(s) == [i \in 1..Len(s) |-> LowerChar(s[i])]

RECURSIVE LStrip(_, _)
LStrip(s, chars) ==
    IF s # <<>> /\ Head(s) \in chars THEN LStrip(Tail(s), chars) ELSE s

RECURSIVE RStrip(_, _)
RStrip(s, chars) ==
    IF s # <<>> /\ s[Len(s)] \in chars
    THEN RStrip(SubSeq(s, 1, Len(s) - 1), chars) ELSE s

\* str.strip(): leading and trailing whitespace removed
StrStrip(s) == RStrip(LStrip(s, Whitespace), Whitespace)

\* str.replace(ch, ''): every occurrence of ch removed
StrRemove(s, ch) == SelectSeq(s, LAMBDA c : c # ch)

\* str.isalnum(): every character alphanumeric and at least one character
IsAlnum(s) == Len(s) > 0 /\ \A i \in 1..Len(s) : s[i] \in AlnumChars

\* the index of the last occurrence of ch in s, 0 when there is none
LastIndex(s, ch) ==
    IF ch \in Range(s)
    THEN CHOOSE i \in 1..Len(s) : s[i] = ch /\ \A j \in (i+1)..Len(s) : s[j] # ch
    ELSE 0

-----------------------------------------------------------------------------
(* Bucket names *)

IsValidWithoutCharacterCheck(name) ==
    IF Len(name) = 0 \/ Len(name) < MinNameLen
    THEN [valid |-> FALSE, message |-> "Name must be at least 3 characters"]
    ELSE IF Len(name) > MaxNameLen
    THEN [valid |-> FALSE, message |-> "Name too long (max 50 characters)"]
    ELSE [valid |-> TRUE, message |-> "Valid name"]

is_valid_bucket_name(name) ==
    IF Len(name) = 0 \/ Len(name) < MinNameLen
    THEN [valid |-> FALSE, message |-> "Name must be at least 3 characters"]
    ELSE IF Len(name) > MaxNameLen
    THEN [valid |-> FALSE, message |-> "Name too long (max 50 characters)"]
    ELSE IF ~IsAlnum(StrRemove(StrRemove(name, "-"), "_"))
    THEN [valid |-> FALSE,
          message |-> "Only letters, numbers, dash and underscore allowed"]
    ELSE [valid |-> TRUE, message |-> "Valid name"]

\* data['name'].strip().lower()
NormalizeName(raw) == StrLower(StrStrip(raw))

-----------------------------------------------------------------------------
(* Requests, locals and responses *)

NoReq == [op |-> "none", bucket |-> <<>>, files |-> <<>>, filename |-> <<>>]
NoLoc == [bucket_name |-> <<>>, rowid |-> 0, idx |-> 0, filename |-> <<>>,
          uploaded |-> <<>>, errors |-> <<>>]
NoResp == [code |-> 0, success |-> FALSE, error |-> "", files |-> <<>>,
           errors |-> <<>>, body |-> <<>>, disposition |-> "",
           bucket |-> [id |-> 0, name |-> <<>>]]

\* jsonify({'success': False, 'error': ...}), code
ErrorResp(code, error) == [NoResp EXCEPT !.code = code, !.error = error]
\* jsonify({'success': True, ...}), code
OkResp(code) == [NoResp EXCEPT !.code = code, !.success = TRUE]

\* the slot is inside a handler
InProgress(p) == pc[p] \notin {"idle", "done"}

\* A free slot takes a new request.
Begin(p, r) ==
    /\ pc[p] = "idle"
    /\ req' = [req EXCEPT ![p] = r]
    /\ overlapped' = (overlapped \/ \E q \in Reqs \ {p} : InProgress(q))

\* The handler goes on to its next access of shared state.
Goto(p, label, l) ==
    /\ pc' = [pc EXCEPT ![p] = label]
    /\ loc' = [loc EXCEPT ![p] = l]
    /\ resp' = [resp EXCEPT ![p] = NoResp]

\* The handler returns.
Return(p, r) ==
    /\ pc' = [pc EXCEPT ![p] = "done"]
    /\ loc' = [loc EXCEPT ![p] = NoLoc]
    /\ resp' = [resp EXCEPT ![p] = r]

\* The response has gone to the client: the slot is free again.
Deliver(p) ==
    /\ pc[p] = "done"
    /\ pc' = [pc EXCEPT ![p] = "idle"]
    /\ req' = [req EXCEPT ![p] = NoReq]
    /\ resp' = [resp EXCEPT ![p] = NoResp]
    /\ UNCHANGED <<table, fs, now, loc, overlapped>>

-----------------------------------------------------------------------------
(* The Bucket table *)

\* Bucket.query.filter_by(name=...).first(): the first row's id, 0 for None
QueryFirst(name) ==
    IF \E i \in 1..Len(table) : table[i].name = name
    THEN table[CHOOSE i \in 1..Len(table) :
                 table[i].name = name /\ \A j \in 1..(i-1) : table[j].name # name].id
    ELSE 0

\* the INTEGER PRIMARY KEY of a new row: one more than the largest in the table
NextId ==
    IF table = <<>> THEN 1
    ELSE 1 + CHOOSE m \in {table[i].id : i \in 1..Len(table)} :
                 \A i \in 1..Len(table) : table[i].id <= m

UniqueNotEnforced(name) == FALSE

\* name = db.Column(..., unique=True): an INSERT of a name the table holds fails
UniqueViolated(name) == \E i \in 1..Len(table) : table[i].name = name

-----------------------------------------------------------------------------
(* The directory tree under STORAGE_PATH *)

EmptyDir == [f \in {} |-> <<>>]

\* Path.mkdir(exist_ok=True)
Mkdir(tree, name) ==
    IF name \in DOMAIN tree THEN tree ELSE (name :> EmptyDir) @@ tree

\* folder_path.exists() / file_path.exists()
DirExists(name) == name \in DOMAIN fs
FileExists(name, f) == name \in DOMAIN fs /\ f \in DOMAIN fs[name]

FolderNotCreated(tree, bucket_name) == tree

\* create_bucket_folder(bucket_name)
create_bucket_folder(tree, bucket_name) == Mkdir(tree, bucket_name)

-----------------------------------------------------------------------------
(* create_bucket: POST /buckets *)

\* lines 177-191: normalise and validate the name of the request body, then
\* look the record up
CreateBegin(p, raw) ==
    /\ Begin(p, [NoReq EXCEPT !.op = "create_bucket", !.bucket = raw])
    /\ LET bucket_name == NormalizeName(raw)
           v == is_valid_bucket_name(bucket_name)
       IN  IF ~v.valid
           THEN Return(p, ErrorResp(400, v.message))
           ELSE IF QueryFirst(bucket_name) # 0
           THEN Return(p, ErrorResp(409, "already exists"))
           ELSE Goto(p, "cb_mkdir", [NoLoc EXCEPT !.bucket_name = bucket_name])
    /\ UNCHANGED <<table, fs, now>>

\* lines 193-198: create the folder
CreateMkdir(p) ==
    /\ pc[p] = "cb_mkdir"
    /\ fs' = create_bucket_folder(fs, loc[p].bucket_name)
    /\ Goto(p, "cb_commit", loc[p])
    /\ UNCHANGED <<table, now, req, overlapped>>

\* lines 200-215: add the row and commit; a failed commit is rolled back
CreateCommit(p) ==
    /\ pc[p] = "cb_commit"
    /\ IF UniqueViolated(loc[p].bucket_name)
       THEN /\ table' = table
            /\ Return(p, ErrorResp(500, "Error creating bucket"))
       ELSE /\ table' = Append(table, [id |-> NextId, name |-> loc[p].bucket_name])
            /\ Return(p, [OkResp(201) EXCEPT
                            !.bucket = [id |-> NextId, name |-> loc[p].bucket_name]])
    /\ UNCHANGED <<fs, now, req, overlapped>>

-----------------------------------------------------------------------------
(* File names *)

ALLOWED_EXTENSIONS ==
    { <<"t","x","t">>, <<"p","d","f">>, <<"p","n","g">>, <<"j","p","g">>,
      <<"j","p","e","g">>, <<"g","i","f">>, <<"b","m","p">>, <<"s","v","g">>,
      <<"w","e","b","p">> }

\* filename.rsplit('.', 1)[1], for a filename that holds a '.'
Extension(filename) ==
    SubSeq(filename, LastIndex(filename, ".") + 1, Len(filename))

\* filename.rsplit('.', 1)[0], for a filename that holds a '.'
Stem(filename) == SubSeq(filename, 1, LastIndex(filename, ".") - 1)

AllowedAnyFile(filename) == TRUE

allowed_file(filename) ==
    /\ "." \in Range(filename)
    /\ StrLower(Extension(filename)) \in ALLOWED_EXTENSIONS

\* '_'.join(s.split()): the whitespace-separated words of s joined by '_'
RECURSIVE JoinWords(_)
JoinWords(s) ==
    LET t == LStrip(s, Whitespace) IN
    IF t = <<>> THEN <<>>
    ELSE LET k == IF \E i \in 1..Len(t) : t[i] \in Whitespace
                  THEN CHOOSE i \in 1..Len(t) :
                         t[i] \in Whitespace /\ \A j \in 1..(i-1) : t[j] \notin Whitespace
                  ELSE Len(t) + 1
             rest == JoinWords(SubSeq(t, k, Len(t)))
         IN  IF rest = <<>> THEN SubSeq(t, 1, k - 1)
             ELSE SubSeq(t, 1, k - 1) \o <<"_">> \o rest

SafeChars == AlnumChars \cup {"_", ".", "-"}

\* werkzeug.utils.secure_filename on ASCII input: path separators become
\* spaces, words are joined by '_', every character outside [A-Za-z0-9_.-]
\* is dropped, leading and trailing '.' and '_' are stripped
secure_filename(filename) ==
    LET spaced == [i \in 1..Len(filename) |->
                     IF filename[i] = "/" THEN " " ELSE filename[i]]
        kept == SelectSeq(JoinWords(spaced), LAMBDA c : c \in SafeChars)
    IN  RStrip(LStrip(kept, {".", "_"}), {".", "_"})

\* datetime.now().strftime('%Y%m%d_%H%M%S'), the clock counting the seconds
\* of one minute
Timestamp(t) ==
    <<"2","0","2","6","0","1","0","1","_","0","0","0","0">>
        \o <<DigitChars[(t \div 10) + 1], DigitChars[(t % 10) + 1]>>

\* lines 362-364: the name a colliding upload is stored under
CollisionName(filename, t) ==
    IF "." \in Range(filename) /\ Extension(filename) # <<>>
    THEN Stem(filename) \o <<"_">> \o Timestamp(t) \o <<".">> \o Extension(filename)
    ELSE (IF "." \in Range(filename) THEN Stem(filename) ELSE filename)
             \o <<"_">> \o Timestamp(t)

\* mimetypes.guess_type, by the extension
GuessType(filename) ==
    LET ext == IF "." \in Range(filename) THEN StrLower(Extension(filename)) ELSE <<>>
    IN  IF ext = <<"t","x","t">> THEN "text/plain"
        ELSE IF ext = <<"p","d","f">> THEN "application/pdf"
        ELSE IF ext \in ALLOWED_EXTENSIONS THEN "image"
        ELSE "unknown"

\* get_file_info(file_path), of a file just written: its name and its size
get_file_info(filename, bytes) == [name |-> filename, size |-> Len(bytes)]

SavedNothing(file) == <<>>

\* file.save(): the bytes written are the bytes of the upload
SavedBytes(file) == file.data

-----------------------------------------------------------------------------
(* delete_bucket: DELETE /buckets/<bucket_name> *)

ListFilesSeesNone(bucket_name) == {}

\* [f for f in folder_path.iterdir() if f.is_file()]
ListFiles(bucket_name) == DOMAIN fs[bucket_name]

\* lines 269-275: look the record up
DeleteBucketBegin(p, b) ==
    /\ Begin(p, [NoReq EXCEPT !.op = "delete_bucket", !.bucket = b])
    /\ IF QueryFirst(b) = 0
       THEN Return(p, ErrorResp(404, "Bucket not found"))
       ELSE Goto(p, "db_exists", [NoLoc EXCEPT !.bucket_name = b,
                                               !.rowid = QueryFirst(b)])
    /\ UNCHANGED <<table, fs, now>>

\* line 278: folder_path.exists()
DeleteBucketExists(p) ==
    /\ pc[p] = "db_exists"
    /\ IF DirExists(loc[p].bucket_name)
       THEN Goto(p, "db_list", loc[p])
       ELSE Goto(p, "db_commit", loc[p])
    /\ UNCHANGED <<table, fs, now, req, overlapped>>

\* lines 279-284: list the folder; a folder gone since line 278 raises, which
\* line 302 turns into a 500
DeleteBucketList(p) ==
    /\ pc[p] = "db_list"
    /\ IF ~DirExists(loc[p].bucket_name)
       THEN Return(p, ErrorResp(500, "Error deleting bucket"))
       ELSE IF ListFiles(loc[p].bucket_name) # {}
       THEN Return(p, ErrorResp(400, "Bucket has files"))
       ELSE Goto(p, "db_rmdir", loc[p])
    /\ UNCHANGED <<table, fs, now, req, overlapped>>

\* Path.rmdir() succeeds on an existing, empty directory only
RmdirSucceeds(name) == DirExists(name) /\ DOMAIN fs[name] = {}

RmdirFailureIgnored(p) == Goto(p, "db_commit", loc[p])

\* lines 288-292: a failed rmdir ends the request
RmdirFailed(p) == Return(p, ErrorResp(500, "Error deleting folder"))

\* lines 286-292: remove the folder
DeleteBucketRmdir(p) ==
    /\ pc[p] = "db_rmdir"
    /\ IF RmdirSucceeds(loc[p].bucket_name)
       THEN /\ fs' = [d \in DOMAIN fs \ {loc[p].bucket_name} |-> fs[d]]
            /\ Goto(p, "db_commit", loc[p])
       ELSE /\ fs' = fs
            /\ RmdirFailed(p)
    /\ UNCHANGED <<table, now, req, overlapped>>

\* lines 294-307: delete the row loaded at line 269, by its primary key, and
\* commit.  When the row is gone already the DELETE matches nothing: the ORM
\* then warns and the request succeeds, or raises StaleDataError and the
\* request is rolled back, depending on its version.
DeleteBucketCommit(p) ==
    /\ pc[p] = "db_commit"
    /\ IF \E i \in 1..Len(table) : table[i].id = loc[p].rowid
       THEN /\ table' = SelectSeq(table, LAMBDA row : row.id # loc[p].rowid)
            /\ Return(p, OkResp(200))
       ELSE /\ table' = table
            /\ \E r \in {OkResp(200), ErrorResp(500, "Error deleting bucket")} :
                  Return(p, r)
    /\ UNCHANGED <<fs, now, req, overlapped>>

-----------------------------------------------------------------------------
(* upload_file: POST /buckets/<bucket_name>/files *)

\* lines 374-386: the response, once every file is handled
UploadResponse(l) ==
    IF l.uploaded # <<>>
    THEN [OkResp(200) EXCEPT !.files = l.uploaded, !.errors = l.errors]
    ELSE [ErrorResp(400, "No files were uploaded successfully")
            EXCEPT !.errors = l.errors]

\* line 344: on to the next file, or to the response after the last
UploadNext(p, l) ==
    IF l.idx > Len(req[p].files)
    THEN Return(p, UploadResponse(l))
    ELSE Goto(p, "up_file", l)

\* lines 317-336: look the record up, then look at the files of the request
UploadBegin(p, b, files) ==
    /\ Begin(p, [NoReq EXCEPT !.op = "upload_file", !.bucket = b, !.files = files])
    /\ IF QueryFirst(b) = 0
       THEN Return(p, ErrorResp(404, "Bucket not found"))
       ELSE IF files = <<>>
       THEN Return(p, ErrorResp(400, "No files provided"))
       ELSE IF \A i \in 1..Len(files) : files[i].filename = <<>>
       THEN Return(p, ErrorResp(400, "No files selected"))
       ELSE Goto(p, "up_mkdir", [NoLoc EXCEPT !.bucket_name = b])
    /\ UNCHANGED <<table, fs, now>>

\* lines 338-339: bucket_folder.mkdir(exist_ok=True)
UploadMkdir(p) ==
    /\ pc[p] = "up_mkdir"
    /\ fs' = Mkdir(fs, loc[p].bucket_name)
    /\ Goto(p, "up_file", [loc[p] EXCEPT !.idx = 1])
    /\ UNCHANGED <<table, now, req, overlapped>>

\* lines 359-365: the path a file is written to
ResolveName(bucket_name, filename, t) ==
    IF FileExists(bucket_name, filename) THEN CollisionName(filename, t) ELSE filename

\* lines 345-365: skip or reject the file, or resolve the name it is saved under
UploadFile(p) ==
    /\ pc[p] = "up_file"
    /\ LET l == loc[p]
           file == req[p].files[l.idx]
           filename == secure_filename(file.filename)
       IN  IF file.filename = <<>>
           THEN UploadNext(p, [l EXCEPT !.idx = @ + 1])
           ELSE IF ~allowed_file(file.filename)
           THEN UploadNext(p, [l EXCEPT !.idx = @ + 1,
                    !.errors = Append(@, [error |-> "File type not allowed",
                                          filename |-> file.filename])])
           ELSE IF filename = <<>>
           THEN UploadNext(p, [l EXCEPT !.idx = @ + 1,
                    !.errors = Append(@, [error |-> "Invalid filename",
                                          filename |-> file.filename])])
           ELSE Goto(p, "up_save",
                     [l EXCEPT !.filename = ResolveName(l.bucket_name, filename, now)])
    /\ UNCHANGED <<table, fs, now, req, overlapped>>

\* lines 367-372: file.save() and get_file_info(); a save into a folder that is
\* gone fails and is recorded as an error of the file
UploadSave(p) ==
    /\ pc[p] = "up_save"
    /\ LET l == loc[p]
           file == req[p].files[l.idx]
       IN  IF ~DirExists(l.bucket_name)
           THEN /\ fs' = fs
                /\ UploadNext(p, [l EXCEPT !.idx = @ + 1, !.filename = <<>>,
                       !.errors = Append(@, [error |-> "Failed to save",
                                             filename |-> l.filename])])
           ELSE /\ fs' = [fs EXCEPT ![l.bucket_name] =
                            (l.filename :> SavedBytes(file)) @@ @]
                /\ UploadNext(p, [l EXCEPT !.idx = @ + 1, !.filename = <<>>,
                       !.uploaded = Append(@, get_file_info(l.filename,
                                                            SavedBytes(file)))])
    /\ UNCHANGED <<table, now, req, overlapped>>

-----------------------------------------------------------------------------
(* delete_file: DELETE /buckets/<bucket_name>/files/<filename> *)

\* lines 476-481
DeleteFileBegin(p, b, f) ==
    /\ Begin(p, [NoReq EXCEPT !.op = "delete_file", !.bucket = b, !.filename = f])
    /\ IF QueryFirst(b) = 0
       THEN Return(p, ErrorResp(404, "Bucket not found"))
       ELSE Goto(p, "df_exists", [NoLoc EXCEPT !.bucket_name = b, !.filename = f])
    /\ UNCHANGED <<table, fs, now>>

\* lines 483-490: file_path.exists()
DeleteFileExists(p) ==
    /\ pc[p] = "df_exists"
    /\ IF ~FileExists(loc[p].bucket_name, loc[p].filename)
       THEN Return(p, ErrorResp(404, "File not found"))
       ELSE Goto(p, "df_unlink", loc[p])
    /\ UNCHANGED <<table, fs, now, req, overlapped>>

\* lines 492-503: file_path.unlink(); a file gone since line 486 raises
DeleteFileUnlink(p) ==
    /\ pc[p] = "df_unlink"
    /\ IF ~FileExists(loc[p].bucket_name, loc[p].filename)
       THEN /\ fs' = fs
            /\ Return(p, ErrorResp(500, "Error deleting file"))
       ELSE /\ fs' = [fs EXCEPT ![loc[p].bucket_name] =
                        [f \in DOMAIN @ \ {loc[p].filename} |-> @[f]]]
            /\ Return(p, OkResp(200))
    /\ UNCHANGED <<table, now, req, overlapped>>

-----------------------------------------------------------------------------
(* download_file: GET /buckets/<bucket_name>/files/<filename> *)

\* lines 440-463: the response to a download that runs with no step of another
\* request between its reads
download_file(bucket_name, filename) ==
    IF QueryFirst(bucket_name) = 0
    THEN ErrorResp(404, "Bucket not found")
    ELSE IF ~FileExists(bucket_name, filename)
    THEN ErrorResp(404, "File not found")
    ELSE [OkResp(200) EXCEPT
            !.body = fs[bucket_name][filename],
            !.disposition = IF GuessType(filename) \in {"image", "text/plain"}
                            THEN "inline" ELSE "attachment"]

\* The handler only reads; it takes part in the sequential specification only.
Download(p, b, f) ==
    /\ Begin(p, [NoReq EXCEPT !.op = "download_file", !.bucket = b, !.filename = f])
    /\ Return(p, download_file(b, f))
    /\ UNCHANGED <<table, fs, now>>

-----------------------------------------------------------------------------
(* The clock *)

Tick ==
    /\ now < MaxClock
    /\ now' = now + 1
    /\ UNCHANGED <<table, fs, pc, req, loc, resp, overlapped>>

-----------------------------------------------------------------------------
(* Inputs *)

Pad(n) == [i \in 1..n |-> "a"]
Dashes(n) == [i \in 1..n |-> "-"]

NameAbc == <<"a", "b", "c">>
NameAbcRaw == <<" ", "A", "b", "C", " ">>
NameShort == <<"a", "b">>
NameBang == <<"a", "!", "c">>
NameInner == <<"a", " ", "c">>
NameDashes == <<"-", "_", "-">>
NameLong == <<"a", "-", "_">> \o Pad(MaxNameLen - 3)
NameTooLong == NameLong \o <<"a">>
NameLongRaw == <<" ">> \o NameLong \o <<"\t">>
NameDashesLong == Dashes(MaxNameLen)

CreateNames == {NameAbc, NameAbcRaw, NameShort, NameBang, NameInner, NameDashes,
                NameLong, NameTooLong, NameLongRaw, NameDashesLong, <<>>}

\* the names of the specifications with file operations: one valid name
FewNames == {NameAbc, NameAbcRaw, NameShort}
BucketRefs == {NameAbc, NameAbcRaw}

FileNTxt == <<"n", ".", "t", "x", "t">>
FileSpNTxt == <<" ", "n", ".", "t", "x", "t">>
FileNExe == <<"n", ".", "e", "x", "e">>
FileN == <<"n">>

Data1 == <<104, 105>>
Data2 == <<120>>

FileInputs ==
    { [filename |-> FileNTxt, data |-> Data1],
      [filename |-> FileNTxt, data |-> Data2],
      [filename |-> FileSpNTxt, data |-> Data1],
      [filename |-> FileNExe, data |-> Data1],
      [filename |-> FileN, data |-> Data2],
      [filename |-> <<>>, data |-> <<>>] }

\* the 'files' fields of an upload request, <<>> for a request without the field
UploadLists == UNION {[1..k -> FileInputs] : k \in 0..MaxFiles}

FileRefs == {FileNTxt, FileSpNTxt} \cup {CollisionName(FileNTxt, t) : t \in 0..MaxClock}

\* the requests of the specification with overlapping requests
OneBucket == {NameAbc}
OneFileLists == {<<[filename |-> FileNTxt, data |-> Data1]>>}
OneFileRefs == {FileNTxt, CollisionName(FileNTxt, 0)}

-----------------------------------------------------------------------------
(* Specifications *)

Init ==
    /\ table = <<>>
    /\ fs = [d \in {} |-> EmptyDir]
    /\ now = 0
    /\ pc = [p \in Reqs |-> "idle"]
    /\ req = [p \in Reqs |-> NoReq]
    /\ loc = [p \in Reqs |-> NoLoc]
    /\ resp = [p \in Reqs |-> NoResp]
    /\ overlapped = FALSE

\* create-bucket requests only, overlapping freely
CreateNext ==
    \E p \in Reqs :
        \/ \E raw \in CreateNames : CreateBegin(p, raw)
        \/ CreateMkdir(p)
        \/ CreateCommit(p)
        \/ Deliver(p)

CreateSpec == Init /\ [][CreateNext]_vars

\* every request, one at a time
SeqReqs == {1}

SeqNext ==
    \/ Tick
    \/ \E p \in SeqReqs :
        \/ \E raw \in FewNames : CreateBegin(p, raw)
        \/ CreateMkdir(p)
        \/ CreateCommit(p)
        \/ \E b \in BucketRefs : DeleteBucketBegin(p, b)
        \/ DeleteBucketExists(p)
        \/ DeleteBucketList(p)
        \/ DeleteBucketRmdir(p)
        \/ DeleteBucketCommit(p)
        \/ \E b \in BucketRefs, files \in UploadLists : UploadBegin(p, b, files)
        \/ UploadMkdir(p)
        \/ UploadFile(p)
        \/ UploadSave(p)
        \/ \E b \in BucketRefs, f \in FileRefs : DeleteFileBegin(p, b, f)
        \/ DeleteFileExists(p)
        \/ DeleteFileUnlink(p)
        \/ \E b \in BucketRefs, f \in FileRefs : Download(p, b, f)
        \/ Deliver(p)

SeqSpec == Init /\ [][SeqNext]_vars

\* create-bucket, delete-bucket, upload and delete-file requests, overlapping
\* freely within one second of the clock
Next ==
    \E p \in Reqs :
        \/ \E raw \in FewNames : CreateBegin(p, raw)
        \/ CreateMkdir(p)
        \/ CreateCommit(p)
        \/ \E b \in OneBucket : DeleteBucketBegin(p, b)
        \/ DeleteBucketExists(p)
        \/ DeleteBucketList(p)
        \/ DeleteBucketRmdir(p)
        \/ DeleteBucketCommit(p)
        \/ \E b \in OneBucket, files \in OneFileLists : UploadBegin(p, b, files)
        \/ UploadMkdir(p)
        \/ UploadFile(p)
        \/ UploadSave(p)
        \/ \E b \in OneBucket, f \in OneFileRefs : DeleteFileBegin(p, b, f)
        \/ DeleteFileExists(p)
        \/ DeleteFileUnlink(p)
        \/ Deliver(p)

Spec == Init /\ [][Next]_vars

-----------------------------------------------------------------------------
(* Vocabulary of the properties *)

\* no request is in progress
AllQuiet == \A p \in Reqs : ~InProgress(p)

\* the names that have a Bucket record
RecordNames == {table[i].name : i \in 1..Len(table)}

\* the rows of the table that carry the name
RowsNamed(name) == {i \in 1..Len(table) : table[i].name = name}

\* slot p takes a step
StepOf(p) == <<pc[p], req[p], loc[p], resp[p]>>' # <<pc[p], req[p], loc[p], resp[p]>>

\* slot p starts a request of the kind op in this step
Starts(p, op) == pc[p] = "idle" /\ req'[p].op = op

\* slot p has returned from a request of the kind op
Returned(p, op) == pc[p] = "done" /\ req[p].op = op

\* a bucket name as section 3 of the specification defines it: 3 to 50
\* characters, each a letter, a digit, '-' or '_'
NameChars == AlnumChars \cup {"-", "_"}
WellFormedName(name) ==
    /\ Len(name) >= MinNameLen
    /\ Len(name) <= MaxNameLen
    /\ \A i \in 1..Len(name) : name[i] \in NameChars

-----------------------------------------------------------------------------
(* C1 *)

\* C1 as stated: whenever no request is in progress, however the requests
\* before overlapped, the names with a Bucket record are the names of the
\* directories under the storage root.
C1_RecordIffDirectoryAlways == AllQuiet => RecordNames = DOMAIN fs

\* C1, amended: whenever no request is in progress and no two requests have
\* overlapped so far, the names with a Bucket record are the names of the
\* directories under the storage root.
C1_RecordIffDirectory == (AllQuiet /\ ~overlapped) => RecordNames = DOMAIN fs

C1_Witness ==
    /\ AllQuiet /\ ~overlapped
    /\ RecordNames = {NameAbc}
    /\ FileExists(NameAbc, FileNTxt)
    /\ \E p \in Reqs : Returned(p, "upload_file") /\ resp[p].success

-----------------------------------------------------------------------------
(* C2 *)

\* C2: with no two requests overlapping and no delete-bucket, a create-bucket
\* request for a well-formed name that has no record goes on to insert exactly
\* one row and return 201, and one for a name that has a record returns 409
\* and changes neither the table nor the directories.
C2_CreateOnceThenConflict ==
    [][\A p \in Reqs : ~overlapped' =>
         /\ (Starts(p, "create_bucket")
               /\ WellFormedName(NormalizeName(req'[p].bucket))) =>
                IF RowsNamed(NormalizeName(req'[p].bucket)) # {}
                THEN /\ pc'[p] = "done" /\ resp'[p].code = 409
                     /\ table' = table /\ fs' = fs
                ELSE pc'[p] = "cb_mkdir"
         /\ (pc[p] = "cb_commit" /\ StepOf(p)) =>
                /\ pc'[p] = "done" /\ resp'[p].code = 201
                /\ table' = Append(table, resp'[p].bucket)
                /\ resp'[p].bucket.name = loc[p].bucket_name
      ]_vars

-----------------------------------------------------------------------------
(* C3 *)

\* a name the claim calls invalid
InvalidName(name) ==
    \/ Len(name) < MinNameLen
    \/ Len(name) > MaxNameLen
    \/ \E i \in 1..Len(name) : name[i] \notin NameChars

\* C3: a create-bucket request whose normalized name is shorter than 3, longer
\* than 50 or holds a character other than a letter, a digit, '-' or '_'
\* returns 400 in one step that leaves the table and the directories as they
\* were.
C3_InvalidNameRejected ==
    [][\A p \in Reqs :
         (Starts(p, "create_bucket") /\ InvalidName(NormalizeName(req'[p].bucket))) =>
             /\ pc'[p] = "done"
             /\ resp'[p].code = 400 /\ ~resp'[p].success
             /\ table' = table /\ fs' = fs
      ]_vars

C3_Witness ==
    \E p \in Reqs :
        /\ Returned(p, "create_bucket")
        /\ req[p].bucket = NameBang
        /\ resp[p].code = 400
        /\ \E q \in Reqs : Returned(q, "create_bucket") /\ req[q].bucket = NameTooLong

-----------------------------------------------------------------------------
(* C9 *)

\* C9: a create-bucket request whose normalized name has 3 to 50 characters, all
\* of them '-' or '_', is not answered 400.
C9_DashNamesAccepted ==
    \A p \in Reqs :
        (/\ Returned(p, "create_bucket")
         /\ Len(NormalizeName(req[p].bucket)) >= MinNameLen
         /\ Len(NormalizeName(req[p].bucket)) <= MaxNameLen
         /\ \A i \in 1..Len(NormalizeName(req[p].bucket)) :
               NormalizeName(req[p].bucket)[i] \in {"-", "_"})
        => resp[p].code # 400

-----------------------------------------------------------------------------
(* C10 *)

\* C10: with create-bucket requests overlapping freely, no two rows ever carry
\* the same name; a commit returns 201 only when no row carried the name, and
\* then adds exactly one; a commit that finds the name taken returns 500 and
\* leaves the table as it was; a request that finds the record at its lookup
\* returns 409; and no row is ever removed, so at most one request per name
\* returns 201.
C10_OneCreateWins ==
    [][/\ \A name \in RecordNames' : Cardinality(RowsNamed(name)') <= 1
       /\ Len(table') >= Len(table) /\ SubSeq(table', 1, Len(table)) = table
       /\ \A p \in Reqs :
            /\ (pc[p] = "cb_commit" /\ StepOf(p)) =>
                 /\ pc'[p] = "done"
                 /\ IF RowsNamed(loc[p].bucket_name) # {}
                    THEN resp'[p].code = 500 /\ ~resp'[p].success /\ table' = table
                    ELSE /\ resp'[p].code = 201
                         /\ table' = Append(table, resp'[p].bucket)
                         /\ resp'[p].bucket.name = loc[p].bucket_name
            /\ (Starts(p, "create_bucket") /\ pc'[p] = "done") =>
                 resp'[p].code \in {400, 409} /\ table' = table
            /\ (Starts(p, "create_bucket")
                  /\ RowsNamed(NormalizeName(req'[p].bucket)) # {}) =>
                 pc'[p] = "done" /\ resp'[p].code = 409
      ]_vars

C10_Witness ==
    \E p, q \in Reqs :
        /\ Returned(p, "create_bucket") /\ resp[p].code = 201
        /\ Returned(q, "create_bucket") /\ resp[q].code = 500
        /\ NormalizeName(req[p].bucket) = NormalizeName(req[q].bucket)
        /\ Cardinality(RowsNamed(NormalizeName(req[p].bucket))) = 1

-----------------------------------------------------------------------------
(* C4 *)

\* the bucket has a record and its directory holds one or more files
HoldsFiles(name) == RowsNamed(name) # {} /\ DirExists(name) /\ DOMAIN fs[name] # {}

\* C4: a delete-bucket request that finds, at each of its steps, the record of
\* the bucket and a directory holding one or more files goes from its lookup to
\* its listing of the directory and returns 400 there; none of these steps
\* changes the table, the directories or a file.
C4_NonEmptyBucketKept ==
    [][\A p \in Reqs :
         /\ (Starts(p, "delete_bucket") /\ HoldsFiles(req'[p].bucket)) =>
                pc'[p] = "db_exists" /\ table' = table /\ fs' = fs
         /\ (pc[p] = "db_exists" /\ StepOf(p) /\ HoldsFiles(loc[p].bucket_name)) =>
                pc'[p] = "db_list" /\ table' = table /\ fs' = fs
         /\ (pc[p] = "db_list" /\ StepOf(p) /\ HoldsFiles(loc[p].bucket_name)) =>
                /\ pc'[p] = "done"
                /\ resp'[p].code = 400 /\ ~resp'[p].success
                /\ table' = table /\ fs' = fs
      ]_vars

C4_Witness ==
    \E p \in Reqs :
        /\ Returned(p, "delete_bucket")
        /\ resp[p].code = 400
        /\ HoldsFiles(req[p].bucket)

-----------------------------------------------------------------------------
(* C8 *)

\* C8: when a delete-bucket request that has passed its emptiness check comes
\* to remove the directory and the removal fails (the directory holds a file
\* by then, or is gone), the request returns 500 in that step, which leaves the
\* table, the directories and every file as they were.
C8_FailedRmdirKeepsRecord ==
    [][\A p \in Reqs :
         (/\ pc[p] = "db_rmdir" /\ StepOf(p)
          /\ (~DirExists(loc[p].bucket_name) \/ DOMAIN fs[loc[p].bucket_name] # {})) =>
             /\ pc'[p] = "done"
             /\ resp'[p].code = 500 /\ ~resp'[p].success
             /\ table' = table /\ fs' = fs
      ]_vars

C8_Witness ==
    \E p, q \in Reqs :
        /\ Returned(p, "delete_bucket")
        /\ resp[p].code = 500 /\ resp[p].error = "Error deleting folder"
        /\ RowsNamed(req[p].bucket) # {}
        /\ Returned(q, "upload_file") /\ resp[q].success
        /\ req[q].bucket = req[p].bucket
        /\ FileExists(req[p].bucket, resp[q].files[1].name)

-----------------------------------------------------------------------------
(* C5 *)

\* C5: no step changes the bytes of a file that is in a bucket directory before
\* and after it, and every save of an upload writes to a name that is not in
\* the bucket directory.
C5_NeverOverwrites ==
    [][/\ \A b \in DOMAIN fs \cap DOMAIN fs' :
            \A f \in DOMAIN fs[b] \cap DOMAIN fs'[b] : fs'[b][f] = fs[b][f]
       /\ \A p \in Reqs :
            (pc[p] = "up_save" /\ StepOf(p) /\ DirExists(loc[p].bucket_name)) =>
                ~FileExists(loc[p].bucket_name, loc[p].filename)
      ]_vars

-----------------------------------------------------------------------------
(* C6 *)

\* a file of a request the claim calls disallowed: it has a name, and the name
\* has no '.' or its extension is outside the allowed set
Disallowed(file) ==
    /\ file.filename # <<>>
    /\ \/ "." \notin Range(file.filename)
       \/ StrLower(Extension(file.filename)) \notin ALLOWED_EXTENSIONS

\* C6: the handler never comes to save a disallowed file; and when an upload
\* to an existing bucket has returned, every disallowed file of the request
\* has its entry in the errors of the response, the response lists a stored
\* file for each file of the request that has a name and is not disallowed,
\* each listed file is in the bucket directory, success is true with code 200
\* exactly when a file is listed, and the code is 400 exactly when none is.
C6_DisallowedFilesRejected ==
    \A p \in Reqs :
        /\ pc[p] = "up_save" => ~Disallowed(req[p].files[loc[p].idx])
        /\ (Returned(p, "upload_file") /\ resp[p].code # 404
              /\ \E i \in 1..Len(req[p].files) : req[p].files[i].filename # <<>>) =>
             /\ \A i \in 1..Len(req[p].files) :
                   Disallowed(req[p].files[i]) =>
                      [error |-> "File type not allowed",
                       filename |-> req[p].files[i].filename] \in Range(resp[p].errors)
             /\ Len(resp[p].files) =
                   Cardinality({i \in 1..Len(req[p].files) :
                                  /\ req[p].files[i].filename # <<>>
                                  /\ ~Disallowed(req[p].files[i])})
             /\ \A j \in 1..Len(resp[p].files) :
                   /\ FileExists(req[p].bucket, resp[p].files[j].name)
                   /\ \E i \in 1..Len(req[p].files) :
                         /\ ~Disallowed(req[p].files[i])
                         /\ Len(req[p].files[i].data) = resp[p].files[j].size
             /\ resp[p].success <=> resp[p].files # <<>>
             /\ resp[p].code = 200 <=> resp[p].files # <<>>
             /\ resp[p].code = 400 <=> resp[p].files = <<>>

C6_Witness ==
    \E p \in Reqs :
        /\ Returned(p, "upload_file")
        /\ resp[p].success
        /\ Len(req[p].files) = 2
        /\ Disallowed(req[p].files[1])
        /\ ~Disallowed(req[p].files[2])
        /\ req[p].files[1].filename = FileNExe
        /\ ~FileExists(req[p].bucket, FileNExe)

-----------------------------------------------------------------------------
(* C7 *)

\* an upload of one file under an allowed name has returned with success
SingleUploadDone(p) ==
    /\ Returned(p, "upload_file")
    /\ Len(req[p].files) = 1
    /\ ~Disallowed(req[p].files[1])
    /\ resp[p].success

\* C7 as stated: right after an upload of bytes C under an allowed name F to
\* bucket B, a download of B/F returns C, unless the upload was renamed for a
\* collision, and then a download of B/<the name in the response> returns C.
C7_RoundTripByRequestedName ==
    \A p \in Reqs :
        SingleUploadDone(p) =>
            LET F == req[p].files[1].filename
                returned == resp[p].files[1].name
                collided == \E t \in 0..MaxClock :
                               returned = CollisionName(secure_filename(F), t)
                d == download_file(req[p].bucket, IF collided THEN returned ELSE F)
            IN  d.code = 200 /\ d.body = req[p].files[1].data

\* C7, amended: right after an upload of one file of bytes C under an allowed
\* name to bucket B, a download of B/<the name in the response> returns C.
C7_RoundTripByReturnedName ==
    \A p \in Reqs :
        SingleUploadDone(p) =>
            LET d == download_file(req[p].bucket, resp[p].files[1].name)
            IN  d.code = 200 /\ d.body = req[p].files[1].data

C7_Witness ==
    \E p \in Reqs :
        /\ SingleUploadDone(p)
        /\ req[p].files[1].filename = FileNTxt
        /\ resp[p].files[1].name = CollisionName(FileNTxt, 1)
        /\ fs[req[p].bucket][FileNTxt] # req[p].files[1].data

====
